---- MODULE Spec2Model ----
(***************************************************************************)
(* destruct-js: the PayloadSpec instruction interpreter (payload_spec.ts). *)
(* A PayloadSpec is an ordered list of instructions built with a fluent    *)
(* API; exec(buffer) runs them with a fresh BufferReader and returns the   *)
(* result mapping.                                                          *)
(***************************************************************************)
EXTENDS Integers, Sequences, FiniteSets, TLC

\* ------------------------------------------------------------------ bounds
MaxProg == 3        \* longest program the fluent API builds
MaxLen == 2         \* longest buffer handed to exec
MaxRuns == 3        \* exec calls made on one program

\* ------------------------------------------------------------------ values
\* A JavaScript value is a pair <<tag, n>>: a number, a boolean (n is 0 or 1),
\* a string, NaN or undefined.
Num(n) == <<"num", n>>
Str(s) == <<"str", s>>
Bool(b) == <<"bool", IF b THEN 1 ELSE 0>>
NaN == <<"nan", 0>>
Undefined == <<"undef", 0>>

\* A mapping (a JavaScript object) is a function whose domain is its key set.
EmptyMap == [k \in {} |-> Undefined]
Get(m, k) == IF k \in DOMAIN m THEN m[k] ELSE Undefined
Put(m, k, v) == [x \in DOMAIN m \cup {k} |-> IF x = k THEN v ELSE m[x]]
Delete(m, k) == [x \in DOMAIN m \ {k} |-> m[x]]
\* { ...a, ...b } and Object.assign(a, b): the keys of b win.
Spread(a, b) == [x \in DOMAIN a \cup DOMAIN b |-> IF x \in DOMAIN b THEN b[x] ELSE a[x]]

\* JavaScript ToNumber and the * operator on the values above.
ToNumber(v) == IF v[1] \in {"num", "bool"} THEN v ELSE NaN
Times(a, b) ==
  IF ToNumber(a) = NaN \/ ToNumber(b) = NaN THEN NaN
  ELSE Num(ToNumber(a)[2] * ToNumber(b)[2])

\* String(v) and template interpolation of a value: decimal digits for a number.
RECURSIVE Digits(_)
Digits(n) ==
  LET d == <<"0", "1", "2", "3", "4", "5", "6", "7", "8", "9">>
  IN  IF n < 10 THEN d[n + 1] ELSE Digits(n \div 10) \o d[(n % 10) + 1]

ToStr(v) ==
  CASE v[1] = "num" -> IF v[2] < 0 THEN "-" \o Digits(-v[2]) ELSE Digits(v[2])
    [] v[1] = "bool" -> IF v[2] = 1 THEN "true" ELSE "false"
    [] v[1] = "str" -> v[2]
    [] v[1] = "nan" -> "NaN"
    [] OTHER -> "undefined"

\* Math.floor(x / 8) and the JavaScript remainder x % 8 (sign of the dividend).
FloorDiv8(x) == x \div 8
JsMod8(x) == IF x >= 0 THEN x % 8 ELSE -((-x) % 8)

\* ------------------------------------------------------------------ buffers
Bytes == {1, 161, 210}
Buffers == UNION {[1..n -> Bytes] : n \in 0..MaxLen}
\* The buffers of repeated runs: the prefixes of 0xA1 0xD2 0xA1 0xD2 ...
RunBuffers == {b \in Buffers : \A i \in DOMAIN b : b[i] = IF i % 2 = 1 THEN 161 ELSE 210}

\* Buffer.slice(start): the bytes from start on; start is clamped to the length
\* and a negative start counts from the end.
Slice(buf, start) ==
  LET s == IF start < 0 THEN (IF Len(buf) + start < 0 THEN 0 ELSE Len(buf) + start)
           ELSE IF start > Len(buf) THEN Len(buf) ELSE start
  IN  SubSeq(buf, s + 1, Len(buf))

\* ------------------------------------------------------------ type decoders
\* The leaf decoders of ./types: each reads at the reader's offset under the
\* reader's mode and writes its value under its name in the result.
Types == {"UInt8", "UInt16", "Bool", "Bits2", "Bits3", "Bits4", "Bits5", "Bits8", "Bits16"}
ByteOriented == {"UInt8", "UInt16"}
BitFields == {"Bits2", "Bits3", "Bits4", "Bits5", "Bits8", "Bits16"}

BitSize(typ) ==
  CASE typ = "UInt8" -> 8
    [] typ = "UInt16" -> 16
    [] typ = "Bool" -> 1
    [] typ = "Bits2" -> 2
    [] typ = "Bits3" -> 3
    [] typ = "Bits4" -> 4
    [] typ = "Bits5" -> 5
    [] typ = "Bits8" -> 8
    [] typ = "Bits16" -> 16
    [] OTHER -> 0

\* Bit k of the buffer, most significant bit of byte 0 first.
BitAt(buf, k) == (buf[(k \div 8) + 1] \div (2 ^ (7 - (k % 8)))) % 2

RECURSIVE BitsValue(_, _, _)
BitsValue(buf, start, w) ==
  IF w = 0 THEN 0
  ELSE 2 * BitsValue(buf, start, w - 1) + BitAt(buf, start + w - 1)

Decode(typ, lit, buf, bytes, bits, mode) ==
  CASE typ = "UInt8" -> Num(buf[bytes + 1])
    [] typ = "UInt16" ->
         IF mode = "BE" THEN Num(buf[bytes + 1] * 256 + buf[bytes + 2])
         ELSE Num(buf[bytes + 2] * 256 + buf[bytes + 1])
    [] typ = "Bool" -> Bool(BitsValue(buf, bytes * 8 + bits, 1) = 1)
    [] typ \in BitFields -> Num(BitsValue(buf, bytes * 8 + bits, BitSize(typ)))
    [] OTHER -> lit

\* Why a decoder refuses to read at (bytes, bits), "" when it reads.
DecodeError(typ, buf, bytes, bits) ==
  IF typ = "Literal" THEN ""
  ELSE IF typ \in ByteOriented /\ bits # 0 THEN "alignment"
  ELSE IF bytes * 8 + bits < 0 \/ bytes * 8 + bits + BitSize(typ) > Len(buf) * 8
       THEN "bounds"
  ELSE ""

\* ------------------------------------------------------------- instructions
\* One record shape for every instruction class; unused fields keep defaults.
Instr(op) ==
  [op |-> op, name |-> "", typ |-> "Literal", lit |-> Undefined, bytes |-> 0,
   mode |-> "BE", cb |-> "", spec |-> 0, _size |-> 0,
   then |-> "", shouldBe |-> <<>>, table |-> <<>>]

Modes == {"BE", "LE"}

\* Callbacks handed to derive and predicates handed to if.
Callback(cb, r) ==
  CASE cb = "five" -> Num(5)
    [] OTHER -> Times(Get(r, "count"), Num(2))

Predicate(p, r) ==
  CASE p = "always" -> TRUE
    [] OTHER -> Get(r, "type") = Num(1)

\* What a callback or predicate leaves in the object it was handed: bump
\* doubles r.count in place before it returns it, consume clears r.type after
\* it has tested it, the others write nothing.
CallbackWrites(cb, r) ==
  CASE cb = "bump" -> Put(r, "count", Times(Get(r, "count"), Num(2)))
    [] cb = "consume" -> Put(r, "type", Num(0))
    [] OTHER -> r

\* Key functions handed to switch.
KeyFn(k, r) == Get(r, "type")

\* A lookup that falls back to the default although the key is in the table.
SwitchSelectDefaultFirst(table, key) ==
  IF "default" \in DOMAIN table THEN <<table["default"]>>
  ELSE IF ToStr(key) \in DOMAIN table THEN <<table[ToStr(key)]>>
  ELSE <<>>

\* The program a switch runs: the one under the stringified key, else the one
\* under default, else none.
SwitchSelect(table, key) ==
  IF ToStr(key) \in DOMAIN table THEN <<table[ToStr(key)]>>
  ELSE IF "default" \in DOMAIN table THEN <<table["default"]>>
  ELSE <<>>

\* A size getter that treats the Ignorable wrapper as a NullInstruction.
InstrSizeStoreNull(instr) ==
  CASE instr.op = "field" -> BitSize(instr.typ)
    [] instr.op = "skip" -> instr.bytes * 8
    [] instr.op = "pad" -> instr._size
    [] OTHER -> 0

\* A size getter under which an if advances the cursor past a byte.
InstrSizeIfByte(instr) ==
  CASE instr.op \in {"field", "store"} -> BitSize(instr.typ)
    [] instr.op = "skip" -> instr.bytes * 8
    [] instr.op = "pad" -> instr._size
    [] instr.op = "if" -> 8
    [] OTHER -> 0

\* Instruction.size of each class.
InstrSize(instr) ==
  CASE instr.op \in {"field", "store"} -> BitSize(instr.typ)
    [] instr.op = "skip" -> instr.bytes * 8
    [] instr.op = "pad" -> instr._size
    [] OTHER -> 0

\* A pad that adds to the size an earlier execution left.
PadBitsAccumulate(old, bits) == old + (8 - bits)

\* PadInstruction.execute: the size it leaves in _size.
PadBits(old, bits) == 8 - bits

\* The then option: a function applied to the decoded value.
Then(then, v) == IF then = "" THEN v ELSE Times(v, Num(10))

\* A JavaScript value in a condition.
TruthyValue(v) ==
  CASE v[1] \in {"num", "bool"} -> v[2] # 0
    [] v[1] = "str" -> v[2] # ""
    [] OTHER -> FALSE

\* A check that takes a falsy expected value for no expected value.
ShouldBeFailsTruthy(shouldBe, value) ==
  shouldBe # <<>> /\ TruthyValue(shouldBe[1]) /\ value # shouldBe[1]

\* The shouldBe option: the value differs from the expected one.
ShouldBeFails(shouldBe, value) == shouldBe # <<>> /\ value # shouldBe[1]

ExpectedMessage(name, expected, actual) ==
  "Expected " \o name \o " to be " \o ToStr(expected) \o " but was " \o ToStr(actual)

\* A type or Literal instruction: decode, transform, validate and write
\* result[name].
TypeExecute(instr, buf, rs) ==
  LET e == DecodeError(instr.typ, buf, rs.bytes, rs.bits)
      value == Then(instr.then, Decode(instr.typ, instr.lit, buf, rs.bytes, rs.bits, rs.mode))
  IN  IF e # "" THEN [ok |-> FALSE, err |-> e, result |-> rs.result]
      ELSE IF ShouldBeFails(instr.shouldBe, value)
      THEN [ok |-> FALSE, err |-> ExpectedMessage(instr.name, instr.shouldBe[1], value),
            result |-> rs.result]
      ELSE [ok |-> TRUE, err |-> "", result |-> Put(rs.result, instr.name, value)]

\* if (name): a string is truthy unless it is empty.
Truthy(name) == name # ""

\* Ignorable.execute after the wrapped instruction ran: move result[name] to
\* storedVars[name].
IgnorableMove(name, result, storedVars) ==
  IF Truthy(name)
  THEN [result |-> Delete(result, name),
        storedVars |-> Put(storedVars, name, Get(result, name))]
  ELSE [result |-> result, storedVars |-> storedVars]

\* A view that leaves the stored values out.
CombinedVarsResultOnly(result, storedVars) == result

\* The view handed to derive callbacks and if predicates.
CombinedVars(result, storedVars) == Spread(result, storedVars)

\* A reader whose mappings are the object the callback wrote to.
AfterCallbackLive(mapping, written) == written

\* A mapping of the reader after a callback wrote to its argument: the argument
\* is a fresh object, the mapping is as it was.
AfterCallback(mapping, written) == mapping

\* The buffer an if hands to its nested program.
IfBuffer(buf, rs) == Slice(buf, rs.bytes)

\* An if whose merge keeps the outer value of a name both programs wrote.
IfAssignOuterWins(shouldExec, result, subResult) ==
  IF shouldExec THEN Spread(subResult, result) ELSE result

\* An if that merges the nested result whatever the predicate said.
IfAssignAlways(shouldExec, result, subResult) == Spread(result, subResult)

\* What an if leaves in the result: Object.assign(result, subResult) when the
\* predicate held, nothing otherwise.
IfAssign(shouldExec, result, subResult) ==
  IF shouldExec THEN Spread(result, subResult) ELSE result

\* An if that catches what its nested program throws.
PropagatesNever(shouldExec, sub) == FALSE

\* An if throws what the nested exec it made threw.
Propagates(shouldExec, sub) == shouldExec /\ ~sub.ok

\* BufferReader.addOffset.
AddOffset(byteOffset, bitOffset, bitSize) ==
  LET updatedOffsetInBits == (byteOffset * 8) + bitOffset + bitSize
  IN  [bytes |-> FloorDiv8(updatedOffsetInBits), bits |-> JsMod8(updatedOffsetInBits)]

\* --------------------------------------------------------------- interpreter
\* heap maps each PayloadSpec object to [mode, instructions]. An if instruction
\* holds a reference (spec) to the PayloadSpec it runs.
RECURSIVE Read(_, _, _, _)
RECURSIVE Execute(_, _, _, _, _)

\* A reader that starts past the first bit of its buffer.
NewReaderMidByte(heap, id) ==
  [ok |-> TRUE, err |-> "", result |-> EmptyMap, storedVars |-> EmptyMap,
   byteOffset |-> 0, bitOffset |-> 1, _mode |-> heap[id].mode, trace |-> <<>>,
   heap |-> heap]

\* new BufferReader(this.mode, this.instructions)
NewReader(heap, id) ==
  [ok |-> TRUE, err |-> "", result |-> EmptyMap, storedVars |-> EmptyMap,
   byteOffset |-> 0, bitOffset |-> 0, _mode |-> heap[id].mode, trace |-> <<>>,
   heap |-> heap]

\* PayloadSpec.exec(data)
Exec(heap, id, buf) == Read(id, buf, 1, NewReader(heap, id))

\* A nested reader that starts from the mappings of the outer reader.
NestedReaderInherits(heap, id, rs) ==
  [NewReader(heap, id) EXCEPT !.result = rs.result, !.storedVars = rs.storedVars]

\* A nested reader that starts in the mode of the outer reader.
NestedReaderOuterMode(heap, id, rs) == [NewReader(heap, id) EXCEPT !._mode = rs.mode]

\* The reader of this.otherSpec.exec(...) inside an instruction that was handed
\* the reader state rs: exec is given the bytes only and builds its reader from
\* the nested PayloadSpec alone.
NestedReader(heap, id, rs) == NewReader(heap, id)

\* this.otherSpec.exec(buffer.slice(readerState.offset.bytes))
NestedExec(heap, id, buf, rs) == Read(id, IfBuffer(buf, rs), 1, NestedReader(heap, id, rs))

\* What executing one instruction leaves behind. called/arg: the callback or
\* predicate call it made; ran/sub: the nested run it made and that run's result;
\* subArgs: the views handed to the callbacks and predicates of the nested run.
Outcome(ok, err, result, storedVars, heap) ==
  [ok |-> ok, err |-> err, result |-> result, storedVars |-> storedVars,
   heap |-> heap, called |-> FALSE, arg |-> EmptyMap, ran |-> FALSE, sub |-> EmptyMap,
   which |-> <<>>, subArgs |-> {}]

\* The views handed to the callbacks and predicates of the run that left br.
ArgsOf(br) == {br.trace[n].arg : n \in {m \in DOMAIN br.trace : br.trace[m].called}}

\* A switch instruction: look the key up and run the selected program the way
\* an if runs its program.
SwitchExecute(heap, instr, buf, rs) ==
  LET combinedVars == CombinedVars(rs.result, rs.storedVars)
      sel == SwitchSelect(instr.table, KeyFn(instr.cb, combinedVars))
      sub == NestedExec(heap, sel[1], buf, rs)
  IN  IF sel = <<>>
      THEN [Outcome(TRUE, "", rs.result, rs.storedVars, heap)
              EXCEPT !.called = TRUE, !.arg = combinedVars]
      ELSE IF ~sub.ok
      THEN [Outcome(FALSE, sub.err, rs.result, rs.storedVars, sub.heap)
              EXCEPT !.called = TRUE, !.arg = combinedVars, !.ran = TRUE, !.which = sel]
      ELSE [Outcome(TRUE, "", IfAssign(TRUE, rs.result, sub.result), rs.storedVars, sub.heap)
              EXCEPT !.called = TRUE, !.arg = combinedVars, !.ran = TRUE,
                     !.sub = sub.result, !.which = sel, !.subArgs = ArgsOf(sub)]

\* instruction.execute(buffer, readerState) of instruction i of spec id.
Execute(heap, id, i, buf, rs) ==
  LET instr == heap[id].instructions[i] IN
  CASE instr.op = "field" ->
         LET t == TypeExecute(instr, buf, rs)
         IN  Outcome(t.ok, t.err, t.result, rs.storedVars, heap)
    [] instr.op = "store" ->
         LET t == TypeExecute(instr, buf, rs)
             m == IgnorableMove(instr.name, t.result, rs.storedVars)
         IN  IF t.ok THEN Outcome(TRUE, "", m.result, m.storedVars, heap)
             ELSE Outcome(FALSE, t.err, rs.result, rs.storedVars, heap)
    [] instr.op = "pad" ->
         Outcome(TRUE, "", rs.result, rs.storedVars,
                 [heap EXCEPT ![id].instructions[i]._size = PadBits(@, rs.bits)])
    [] instr.op = "derive" ->
         LET combinedVars == CombinedVars(rs.result, rs.storedVars)
             value == Callback(instr.cb, combinedVars)
             written == CallbackWrites(instr.cb, combinedVars)
         IN  [Outcome(TRUE, "", Put(AfterCallback(rs.result, written), instr.name, value),
                      AfterCallback(rs.storedVars, written), heap)
                EXCEPT !.called = TRUE, !.arg = combinedVars]
    [] instr.op = "if" ->
         LET combinedVars == CombinedVars(rs.result, rs.storedVars)
             shouldExec == Predicate(instr.cb, combinedVars)
             written == CallbackWrites(instr.cb, combinedVars)
             result == AfterCallback(rs.result, written)
             storedVars == AfterCallback(rs.storedVars, written)
             sub == NestedExec(heap, instr.spec, buf, rs)
         IN  IF Propagates(shouldExec, sub)
             THEN [Outcome(FALSE, sub.err, result, storedVars, sub.heap)
                     EXCEPT !.called = TRUE, !.arg = combinedVars, !.ran = TRUE,
                            !.which = <<instr.spec>>]
             ELSE [Outcome(TRUE, "", IfAssign(shouldExec, result, sub.result),
                           storedVars, IF shouldExec THEN sub.heap ELSE heap)
                     EXCEPT !.called = TRUE, !.arg = combinedVars, !.ran = shouldExec,
                            !.sub = IF shouldExec THEN sub.result ELSE EmptyMap,
                            !.which = IF shouldExec THEN <<instr.spec>> ELSE <<>>,
                            !.subArgs = IF shouldExec THEN ArgsOf(sub) ELSE {}]
    [] instr.op = "switch" -> SwitchExecute(heap, instr, buf, rs)
    [] OTHER -> Outcome(TRUE, "", rs.result, rs.storedVars, heap)

\* One entry of the trace of a run: the reader after instruction i.
Snapshot(ex, off, mode) ==
  [result |-> ex.result, storedVars |-> ex.storedVars, bytes |-> off.bytes,
   bits |-> off.bits, mode |-> mode, called |-> ex.called, arg |-> ex.arg,
   ran |-> ex.ran, sub |-> ex.sub, which |-> ex.which, subArgs |-> ex.subArgs]

\* An endianness instruction the reader passes over.
SwitchModeKeep(old, new) == old

\* The mode an endianness instruction leaves in the reader.
SwitchMode(old, new) == new

\* BufferReader.read(buffer), from instruction i on.
Read(id, buf, i, br) ==
  IF i > Len(br.heap[id].instructions) \/ ~br.ok THEN br
  ELSE
    LET instruction == br.heap[id].instructions[i] IN
    IF instruction.op = "endianness"
    THEN LET m == SwitchMode(br._mode, instruction.mode)
             ex == Outcome(TRUE, "", br.result, br.storedVars, br.heap)
         IN  Read(id, buf, i + 1,
                  [br EXCEPT !._mode = m,
                             !.trace = Append(@, Snapshot(ex,
                                [bytes |-> br.byteOffset, bits |-> br.bitOffset], m))])
    ELSE
      LET readerState == [result |-> br.result, storedVars |-> br.storedVars,
                          mode |-> br._mode, bytes |-> br.byteOffset,
                          bits |-> br.bitOffset]
          ex == Execute(br.heap, id, i, buf, readerState)
          off == AddOffset(br.byteOffset, br.bitOffset,
                           InstrSize(ex.heap[id].instructions[i]))
      IN  IF ~ex.ok
          THEN [br EXCEPT !.ok = FALSE, !.err = ex.err, !.result = ex.result,
                          !.storedVars = ex.storedVars, !.heap = ex.heap]
          ELSE Read(id, buf, i + 1,
                    [br EXCEPT !.result = ex.result, !.storedVars = ex.storedVars,
                               !.heap = ex.heap, !.byteOffset = off.bytes,
                               !.bitOffset = off.bits,
                               !.trace = Append(@, Snapshot(ex, off, br._mode))])

\* ----------------------------------------------------------------- PosBuffer
\* A PosBuffer (pos_buffer.ts) is a record [_buffer, offsetBytes, offsetBits,
\* endianness]. Each method below yields the PosBuffer it leaves and what the
\* caller sees: a value, or an error thrown.

\* new PosBuffer(bytes, options)
NewPosBuffer(bytes, offset, endianness) ==
  [_buffer |-> bytes, offsetBytes |-> offset.bytes, offsetBits |-> offset.bits,
   endianness |-> endianness]

Returned(p, value) == [pb |-> p, threw |-> FALSE, err |-> "", value |-> value]
Thrown(p, err) == [pb |-> p, threw |-> TRUE, err |-> err, value |-> Undefined]

\* An addOffset that leaves the bit offset out of the current position.
PosAddOffsetFromByte(p, bitSize) ==
  LET updatedOffsetInBits == (p.offsetBytes * 8) + bitSize
  IN  [bytes |-> FloorDiv8(updatedOffsetInBits), bits |-> JsMod8(updatedOffsetInBits)]

\* PosBuffer.addOffset
PosAddOffset(p, bitSize) ==
  LET currentOffsetInBits == (p.offsetBytes * 8) + p.offsetBits
      updatedOffsetInBits == currentOffsetInBits + bitSize
  IN  [bytes |-> FloorDiv8(updatedOffsetInBits), bits |-> JsMod8(updatedOffsetInBits)]

\* PosBuffer.updateOffset
UpdateOffset(p, bitSize) ==
  [p EXCEPT !.offsetBytes = PosAddOffset(p, bitSize).bytes,
            !.offsetBits = PosAddOffset(p, bitSize).bits]

\* set offset
SetOffset(p, offset) == [p EXCEPT !.offsetBytes = offset.bytes, !.offsetBits = offset.bits]

\* The error a decoder of ./types throws at the cursor of p, "" when it decodes.
AlignmentMessage(bits) ==
  "Buffer position is not at a byte boundary (bit offset " \o ToStr(Num(bits))
    \o "). Do you need to use pad()?"

DataError(typ, p) ==
  LET e == DecodeError(typ, p._buffer, p.offsetBytes, p.offsetBits)
  IN  IF e = "alignment" THEN AlignmentMessage(p.offsetBits) ELSE e

\* dataInstruction.execute(this) where it decodes
DataValue(typ, p) ==
  Decode(typ, Undefined, p._buffer, p.offsetBytes, p.offsetBits, p.endianness)

\* A read that moves the cursor before the decoder has run.
ReadCursorEager(p, bitSize, threw) == UpdateOffset(p, bitSize)

\* The cursor a read leaves: execute comes first, and when it throws
\* updateOffset is not reached.
ReadCursor(p, bitSize, threw) == IF threw THEN p ELSE UpdateOffset(p, bitSize)

\* PosBuffer.read(dataType, options)
PosRead(p, typ, then) ==
  IF p.offsetBytes > Len(p._buffer) - 1
  THEN Thrown(p, "Attempt to read outside of the buffer")
  ELSE LET e == DataError(typ, p)
       IN  IF e # "" THEN Thrown(ReadCursor(p, BitSize(typ), TRUE), e)
           ELSE Returned(ReadCursor(p, BitSize(typ), FALSE), Then(then, DataValue(typ, p)))

\* PosBuffer.skip(bytes): the offset is updated, then checked.
PosSkip(p, bytes) ==
  LET q == UpdateOffset(p, bytes * 8)
  IN  IF q.offsetBytes > Len(q._buffer) - 1 \/ q.offsetBytes < 0
      THEN Thrown(q, "Attempt to skip outside the buffer")
      ELSE Returned(q, Undefined)

\* PosBuffer.peek(instruction, byteOffset)
PosPeek(p, typ, byteOffset) ==
  IF byteOffset < 0 \/ (byteOffset + PosAddOffset(p, BitSize(typ)).bytes) > Len(p._buffer)
  THEN Thrown(p, "Attempt to peek outside of the buffer")
  ELSE LET originalOffset == [bytes |-> p.offsetBytes, bits |-> p.offsetBits]
           q == SetOffset(p, [bytes |-> byteOffset, bits |-> 0])
           e == DataError(typ, q)
       IN  IF e # "" THEN Thrown(q, e)
           ELSE Returned(SetOffset(q, originalOffset), DataValue(typ, q))

\* Buffer.slice(start, end): indices are clamped to the length, a negative one
\* counts from the end, no end means the length; end is <<>> or <<e>>.
SliceIndex(buf, i) ==
  IF i < 0 THEN (IF Len(buf) + i < 0 THEN 0 ELSE Len(buf) + i)
  ELSE IF i > Len(buf) THEN Len(buf) ELSE i

SliceTo(buf, start, end) ==
  SubSeq(buf, SliceIndex(buf, start) + 1,
         IF end = <<>> THEN Len(buf) ELSE SliceIndex(buf, end[1]))

\* A slice that hands back the PosBuffer it was called on.
PosSliceThis(p, start, end) == [is |-> "this", pb |-> p]

\* PosBuffer.slice(start, end): a new PosBuffer over the sliced bytes, built
\* without options.
PosSlice(p, start, end) ==
  [is |-> "new",
   pb |-> NewPosBuffer(SliceTo(p._buffer, start, end), [bytes |-> 0, bits |-> 0], "BE")]

\* PosBuffer.pad()
PosPad(p) ==
  IF p.offsetBits # 0
  THEN Returned([p EXCEPT !.offsetBytes = p.offsetBytes + 1, !.offsetBits = 0], Undefined)
  ELSE Returned(p, Undefined)

\* ------------------------------------------------------------- state machine
VARIABLES
  heap,   \* the PayloadSpec objects: heap[Main] is the one being built
  run,    \* the last exec call on heap[Main]: its buffer and what it left
          \* (count: the exec calls made so far, seen: the buffers of the earlier
          \* ones, returned: the mapping handed back, none when exec threw)
  pb,     \* a PosBuffer
  call,   \* the last method call on pb: its arguments, the offset before it and
          \* what it returned or threw (count: the calls made so far)
  sliced  \* what the caller holds after pb.slice: no PosBuffer yet, a PosBuffer
          \* of its own (in field pb), or pb itself

vars == <<heap, run, pb, call, sliced>>

Main == 0
NestedIds == 1..10

\* The nested PayloadSpecs handed to if and switch, built before the main one.
Nested ==
  [k \in NestedIds |->
     CASE k = 1 -> [mode |-> "BE",
                    instructions |-> <<[Instr("field") EXCEPT !.name = "a1", !.typ = "UInt8"]>>]
       [] k = 2 -> [mode |-> "BE",
                    instructions |-> <<[Instr("field") EXCEPT !.name = "a1", !.typ = "Bits8"]>>]
       [] k = 3 -> [mode |-> "LE",
                    instructions |-> <<[Instr("field") EXCEPT !.name = "type", !.typ = "UInt8"]>>]
       [] k = 4 -> [mode |-> "BE",
                    instructions |-> <<[Instr("field") EXCEPT !.name = "one", !.typ = "UInt8"]>>]
       [] k = 5 -> [mode |-> "BE",
                    instructions |-> <<[Instr("skip") EXCEPT !.bytes = 1],
                                       [Instr("field") EXCEPT !.name = "two", !.typ = "UInt8"]>>]
       [] k = 6 -> [mode |-> "LE",
                    instructions |-> <<[Instr("field") EXCEPT !.name = "count", !.typ = "UInt16"]>>]
       [] k = 7 -> [mode |-> "BE",
                    instructions |-> <<[Instr("field") EXCEPT !.name = "count", !.typ = "UInt16"],
                                       [Instr("endianness") EXCEPT !.mode = "LE"]>>]
       [] k = 8 -> [mode |-> "BE",
                    instructions |-> <<[Instr("field") EXCEPT !.name = "count", !.typ = "UInt8"]>>]
       [] k = 9 -> [mode |-> "BE",
                    instructions |-> <<[Instr("store") EXCEPT !.name = "secret", !.typ = "UInt8"],
                                       [Instr("derive") EXCEPT !.name = "doubleCount",
                                                               !.cb = "doubleCount"],
                                       [Instr("if") EXCEPT !.cb = "typeIs1", !.spec = 1]>>]
       [] OTHER -> [mode |-> "BE",
                    instructions |-> <<[Instr("endianness") EXCEPT !.mode = "LE"],
                                       [Instr("field") EXCEPT !.name = "count", !.typ = "UInt16"]>>]]

\* new PayloadSpec(mode) for the main program, next to the nested ones.
Construct(mode) ==
  /\ heap = [k \in {Main} \cup NestedIds |->
               IF k = Main THEN [mode |-> mode, instructions |-> <<>>] ELSE Nested[k]]
  /\ run = [count |-> 0, seen |-> {}, buf |-> <<>>, ok |-> TRUE, err |-> "",
            result |-> EmptyMap, storedVars |-> EmptyMap, byteOffset |-> 0,
            bitOffset |-> 0, trace |-> <<>>, returned |-> <<>>]

\* this.instructions.push(instr)
CanPush == run.count = 0 /\ Len(heap[Main].instructions) < MaxProg
Push(instr) == [heap EXCEPT ![Main].instructions = Append(@, instr)]

\* PayloadSpec.field(name, Type)
Field(args) ==
  /\ CanPush
  /\ \E a \in args : heap' = Push([Instr("field") EXCEPT !.name = a[1], !.typ = a[2]])
  /\ UNCHANGED <<run, pb, call, sliced>>

\* PayloadSpec.field(name, Type, options)
FieldWith(args) ==
  /\ CanPush
  /\ \E a \in args :
       heap' = Push([Instr("field") EXCEPT !.name = a[1], !.typ = a[2], !.then = a[3],
                                           !.shouldBe = a[4]])
  /\ UNCHANGED <<run, pb, call, sliced>>

\* PayloadSpec.field(name, value) with a scalar value: a Literal instruction
FieldLiteral(args) ==
  /\ CanPush
  /\ \E a \in args : heap' = Push([Instr("field") EXCEPT !.name = a[1], !.lit = a[2]])
  /\ UNCHANGED <<run, pb, call, sliced>>

\* PayloadSpec.store(name, value) with a scalar value
StoreLiteral(args) ==
  /\ CanPush
  /\ \E a \in args : heap' = Push([Instr("store") EXCEPT !.name = a[1], !.lit = a[2]])
  /\ UNCHANGED <<run, pb, call, sliced>>

\* PayloadSpec.store(name, Type)
Store(args) ==
  /\ CanPush
  /\ \E a \in args : heap' = Push([Instr("store") EXCEPT !.name = a[1], !.typ = a[2]])
  /\ UNCHANGED <<run, pb, call, sliced>>

\* PayloadSpec.derive(name, callback)
Derive(args) ==
  /\ CanPush
  /\ \E a \in args : heap' = Push([Instr("derive") EXCEPT !.name = a[1], !.cb = a[2]])
  /\ UNCHANGED <<run, pb, call, sliced>>

\* PayloadSpec.skip(bytes)
Skip(args) ==
  /\ CanPush
  /\ \E n \in args : heap' = Push([Instr("skip") EXCEPT !.bytes = n])
  /\ UNCHANGED <<run, pb, call, sliced>>

\* PayloadSpec.if(predicate, otherSpec)
If(args) ==
  /\ CanPush
  /\ \E a \in args : heap' = Push([Instr("if") EXCEPT !.cb = a[1], !.spec = a[2]])
  /\ UNCHANGED <<run, pb, call, sliced>>

\* PayloadSpec.switch(keyFn, table)
Switch(args) ==
  /\ CanPush
  /\ \E a \in args : heap' = Push([Instr("switch") EXCEPT !.cb = a[1], !.table = a[2]])
  /\ UNCHANGED <<run, pb, call, sliced>>

\* PayloadSpec.pad()
Pad ==
  /\ CanPush
  /\ heap' = Push(Instr("pad"))
  /\ UNCHANGED <<run, pb, call, sliced>>

\* PayloadSpec.endianness(mode)
Endianness(args) ==
  /\ CanPush
  /\ \E m \in args : heap' = Push([Instr("endianness") EXCEPT !.mode = m])
  /\ UNCHANGED <<run, pb, call, sliced>>

\* A caller's exec(buf) on the main program.
ExecCall(buf) ==
  LET out == Exec(heap, Main, buf) IN
  /\ heap' = out.heap
  /\ run' = [count |-> run.count + 1,
             seen |-> IF run.count = 0 THEN {} ELSE run.seen \cup {run.buf},
             buf |-> buf, ok |-> out.ok, err |-> out.err,
             result |-> out.result, storedVars |-> out.storedVars,
             byteOffset |-> out.byteOffset, bitOffset |-> out.bitOffset,
             trace |-> out.trace,
             returned |-> IF out.ok THEN <<out.result>> ELSE <<>>]
  /\ UNCHANGED <<pb, call, sliced>>

\* The first exec of a program, on any buffer.
ExecOp == run.count = 0 /\ \E buf \in Buffers : ExecCall(buf)

\* exec called again and again on one program.
ExecAgain == run.count < MaxRuns /\ \E buf \in RunBuffers : ExecCall(buf)

\* PosBuffer calls made on one PosBuffer.
MaxCalls == 4

\* new PosBuffer(bytes, { offset })
PosConstruct(buffers, offsets) ==
  \E bytes \in buffers : \E offset \in offsets :
    /\ pb = NewPosBuffer(bytes, offset, "BE")
    /\ call = [op |-> "new", typ |-> "", arg |-> 0, before |-> offset, threw |-> FALSE,
               err |-> "", value |-> Undefined, count |-> 0]
    /\ sliced = [is |-> "none", pb |-> NewPosBuffer(<<>>, [bytes |-> 0, bits |-> 0], "BE")]

\* What call keeps of a method call on pb that left out.
Called(op, typ, arg, out) ==
  [op |-> op, typ |-> typ, arg |-> arg,
   before |-> [bytes |-> pb.offsetBytes, bits |-> pb.offsetBits],
   threw |-> out.threw, err |-> out.err, value |-> out.value, count |-> call.count + 1]

\* A caller's pb.read(Type, { then })
PbRead(args) ==
  /\ call.count < MaxCalls
  /\ \E a \in args :
       LET out == PosRead(pb, a[1], a[2])
       IN  pb' = out.pb /\ call' = Called("read", a[1], a[2], out)
  /\ UNCHANGED <<heap, run, sliced>>

\* A caller's pb.skip(n)
PbSkip(args) ==
  /\ call.count < MaxCalls
  /\ \E n \in args :
       LET out == PosSkip(pb, n)
       IN  pb' = out.pb /\ call' = Called("skip", "", n, out)
  /\ UNCHANGED <<heap, run, sliced>>

\* A caller's pb.peek(Type, byteOffset)
PbPeek(args) ==
  /\ call.count < MaxCalls
  /\ \E a \in args :
       LET out == PosPeek(pb, a[1], a[2])
       IN  pb' = out.pb /\ call' = Called("peek", a[1], a[2], out)
  /\ UNCHANGED <<heap, run, sliced>>

\* A caller's pb.pad()
PbPad ==
  /\ call.count < MaxCalls
  /\ pb' = PosPad(pb).pb
  /\ call' = Called("pad", "", 0, PosPad(pb))
  /\ UNCHANGED <<heap, run, sliced>>

\* The PosBuffer the caller got from pb.slice.
SliceOf == IF sliced.is = "this" THEN pb ELSE sliced.pb

\* What a method call on the slice that left the PosBuffer q leaves in pb and in
\* sliced.
OnSlice(q) ==
  [pb |-> IF sliced.is = "this" THEN q ELSE pb,
   sliced |-> IF sliced.is = "this" THEN sliced ELSE [sliced EXCEPT !.pb = q]]

\* What call keeps of a method call on the slice that left out.
CalledOnSlice(op, typ, arg, out) ==
  [op |-> op, typ |-> typ, arg |-> arg,
   before |-> [bytes |-> SliceOf.offsetBytes, bits |-> SliceOf.offsetBits],
   threw |-> out.threw, err |-> out.err, value |-> out.value, count |-> call.count + 1]

\* A caller's pb.slice(start, end)
PbSlice(args) ==
  /\ call.count < MaxCalls
  /\ \E a \in args :
       /\ sliced' = PosSlice(pb, a[1], a[2])
       /\ call' = Called("slice", "", a[1], Returned(pb, Undefined))
  /\ UNCHANGED <<heap, run, pb>>

\* A caller's read(Type) on the slice
SlRead(args) ==
  /\ call.count < MaxCalls /\ sliced.is # "none"
  /\ \E a \in args :
       LET out == PosRead(SliceOf, a[1], a[2])
       IN  /\ pb' = OnSlice(out.pb).pb
           /\ sliced' = OnSlice(out.pb).sliced
           /\ call' = CalledOnSlice("slice.read", a[1], a[2], out)
  /\ UNCHANGED <<heap, run>>

\* A caller's skip(n) on the slice
SlSkip(args) ==
  /\ call.count < MaxCalls /\ sliced.is # "none"
  /\ \E n \in args :
       LET out == PosSkip(SliceOf, n)
       IN  /\ pb' = OnSlice(out.pb).pb
           /\ sliced' = OnSlice(out.pb).sliced
           /\ call' = CalledOnSlice("slice.skip", "", n, out)
  /\ UNCHANGED <<heap, run>>

\* A caller's pad() on the slice
SlPad ==
  /\ call.count < MaxCalls /\ sliced.is # "none"
  /\ pb' = OnSlice(PosPad(SliceOf).pb).pb
  /\ sliced' = OnSlice(PosPad(SliceOf).pb).sliced
  /\ call' = CalledOnSlice("slice.pad", "", 0, PosPad(SliceOf))
  /\ UNCHANGED <<heap, run>>

\* The PosBuffer of the PayloadSpec specifications: none is in use.
NoPosBuffer == PosConstruct({<<>>}, {[bytes |-> 0, bits |-> 0]})

\* Programs of fields, stores, derives, skips, pads and endianness switches.
FieldArgs == {<<"count", "UInt16">>, <<"type", "Bits3">>}
StoreArgs == {<<"count", "UInt8">>, <<"", "UInt8">>}
DeriveArgs == {<<"doubleCount", "doubleCount">>}
SkipArgs == {1}

Init == Construct("BE") /\ NoPosBuffer

Next ==
  \/ Field(FieldArgs)
  \/ Store(StoreArgs)
  \/ Derive(DeriveArgs)
  \/ Skip(SkipArgs)
  \/ Pad
  \/ Endianness(Modes)
  \/ ExecOp

Spec == Init /\ [][Next]_vars

\* Programs with if instructions.
IfFieldArgs == {<<"type", "UInt8">>, <<"type", "Bits3">>}
IfStoreArgs == {<<"type", "UInt8">>}
IfArgs == {<<"always", 2>>, <<"typeIs1", 1>>, <<"typeIs1", 3>>}

NextIf ==
  \/ Field(IfFieldArgs)
  \/ Store(IfStoreArgs)
  \/ If(IfArgs)
  \/ ExecOp

SpecIf == Init /\ [][NextIf]_vars

\* Programs with endianness switches, under either constructor mode.
EndianFieldArgs == {<<"count", "UInt16">>, <<"type", "UInt8">>}

InitModes == (\E mode \in Modes : Construct(mode)) /\ NoPosBuffer

NextEndian ==
  \/ Field(EndianFieldArgs)
  \/ Endianness(Modes)
  \/ ExecOp

SpecEndian == InitModes /\ [][NextEndian]_vars

\* Programs executed several times, on buffers of several lengths.
RunFieldArgs == {<<"count", "UInt16">>, <<"type", "Bits3">>}
RunStoreArgs == {<<"count", "UInt8">>}
RunIfArgs == {<<"always", 2>>}

NextRuns ==
  \/ Field(RunFieldArgs)
  \/ Store(RunStoreArgs)
  \/ If(RunIfArgs)
  \/ Pad
  \/ Endianness({"LE"})
  \/ ExecAgain

SpecRuns == Init /\ [][NextRuns]_vars

\* Programs with switch instructions.
SwitchFieldArgs == {<<"type", "UInt8">>, <<"one", "UInt8">>}
SwitchArgs ==
  {<<"type", [k \in {"1", "161"} |-> IF k = "1" THEN 4 ELSE 5]>>,
   <<"type", [k \in {"1", "default"} |-> IF k = "1" THEN 4 ELSE 5]>>,
   <<"type", [k \in {"161", "default"} |-> IF k = "161" THEN 1 ELSE 3]>>}

NextSwitch ==
  \/ Field(SwitchFieldArgs)
  \/ Switch(SwitchArgs)
  \/ ExecOp

SpecSwitch == Init /\ [][NextSwitch]_vars

\* Programs of fields with options.
ShouldBeArgs ==
  {<<"frequency", "UInt8", "", <<Num(1)>>>>,
   <<"frequency", "UInt8", "", <<Str("")>>>>,
   <<"days", "Bits3", "", <<Num(0)>>>>,
   <<"enabled", "Bool", "", <<Bool(FALSE)>>>>,
   <<"count", "UInt8", "times10", <<Num(10)>>>>,
   <<"count", "UInt8", "", <<>>>>}

NextShouldBe ==
  \/ FieldWith(ShouldBeArgs)
  \/ Pad
  \/ ExecOp

SpecShouldBe == Init /\ [][NextShouldBe]_vars

\* Programs with literal values between fields that consume the buffer.
LiteralFieldArgs == {<<"count", "UInt8">>, <<"type", "Bits3">>}
FieldLiteralArgs == {<<"type", Str("install")>>, <<"enabled", Bool(TRUE)>>, <<"n", Num(23)>>}
StoreLiteralArgs == {<<"pi", Num(3)>>, <<"", Bool(TRUE)>>}

NextLiteral ==
  \/ Field(LiteralFieldArgs)
  \/ FieldLiteral(FieldLiteralArgs)
  \/ StoreLiteral(StoreLiteralArgs)
  \/ ExecOp

SpecLiteral == Init /\ [][NextLiteral]_vars

\* Programs that fail: fields that do not fit or are not aligned, before and
\* inside ifs, with callbacks after them.
AbortFieldArgs == {<<"type", "UInt8">>, <<"type", "Bits3">>}
AbortIfArgs == {<<"always", 1>>, <<"typeIs1", 2>>}

NextAbort ==
  \/ Field(AbortFieldArgs)
  \/ Derive(DeriveArgs)
  \/ If(AbortIfArgs)
  \/ ExecOp

SpecAbort == Init /\ [][NextAbort]_vars

\* Calls on a PosBuffer: reads, skips, peeks and pads.
PosBytes == {165, 50}
PosBuffers == UNION {[1..n -> PosBytes] : n \in 0..MaxLen}
PosOffsets == {[bytes |-> 0, bits |-> 0], [bytes |-> 1, bits |-> 1]}
ReadArgs ==
  {<<"UInt8", "">>, <<"UInt8", "times10">>, <<"UInt16", "">>, <<"Bool", "">>,
   <<"Bits2", "">>, <<"Bits3", "">>, <<"Bits4", "">>, <<"Bits5", "">>, <<"Bits16", "">>}
PosSkipArgs == {-1, 1, 2}
PeekArgs == {"UInt8", "UInt16"} \X {-1, 0, 1}

InitPos == Construct("BE") /\ PosConstruct(PosBuffers, PosOffsets)

NextPos ==
  \/ PbRead(ReadArgs)
  \/ PbSkip(PosSkipArgs)
  \/ PbPeek(PeekArgs)
  \/ PbPad

SpecPos == InitPos /\ [][NextPos]_vars

\* Calls on a PosBuffer and on slices of it.
SliceBuffers == {<<165, 50>>, <<165, 50, 1>>}
SliceArgs == {<<1, <<>>>>, <<0, <<1>>>>, <<1, <<2>>>>}
SliceReadArgs == {<<"UInt8", "">>, <<"Bits3", "">>}

InitSlice == Construct("BE") /\ PosConstruct(SliceBuffers, {[bytes |-> 0, bits |-> 0]})

NextSlice ==
  \/ PbSlice(SliceArgs)
  \/ PbRead({<<"Bits3", "">>})
  \/ PbSkip({1})
  \/ PbPad
  \/ SlRead(SliceReadArgs)
  \/ SlSkip({1, -1})
  \/ SlPad

SpecSlice == InitSlice /\ [][NextSlice]_vars

\* Programs with endianness switches around ifs whose nested programs have
\* modes and endianness switches of their own, under either constructor mode.
NestedEndianFieldArgs == {<<"total", "UInt16">>}
NestedEndianIfArgs == {<<"always", 6>>, <<"always", 7>>, <<"always", 10>>}

NextNestedEndian ==
  \/ Field(NestedEndianFieldArgs)
  \/ Endianness(Modes)
  \/ If(NestedEndianIfArgs)
  \/ ExecOp

SpecNestedEndian == InitModes /\ [][NextNestedEndian]_vars

\* Programs whose stores take names that fields, derives and nested programs
\* have written before.
FrameFieldArgs == {<<"count", "UInt8">>, <<"", "UInt8">>}
FrameStoreArgs == {<<"count", "UInt8">>, <<"", "UInt8">>}
FrameDeriveArgs == {<<"count", "five">>, <<"doubleCount", "doubleCount">>}
FrameIfArgs == {<<"always", 8>>}

NextFrame ==
  \/ Field(FrameFieldArgs)
  \/ Store(FrameStoreArgs)
  \/ Derive(FrameDeriveArgs)
  \/ If(FrameIfArgs)
  \/ ExecOp

SpecFrame == Init /\ [][NextFrame]_vars

\* Programs with values in the result and in the stored mapping around an if
\* whose nested program stores, derives and tests values of its own.
IsolatedFieldArgs == {<<"type", "UInt8">>, <<"count", "UInt8">>}
IsolatedStoreArgs == {<<"count", "UInt8">>}
IsolatedIfArgs == {<<"always", 9>>}

NextIsolated ==
  \/ Field(IsolatedFieldArgs)
  \/ Store(IsolatedStoreArgs)
  \/ Derive(DeriveArgs)
  \/ If(IsolatedIfArgs)
  \/ ExecOp

SpecIsolated == Init /\ [][NextIsolated]_vars

\* Programs whose callbacks and predicates write to the object they are handed,
\* with fields and nested programs that overwrite what they read.
SnapshotFieldArgs == {<<"count", "UInt8">>, <<"type", "UInt8">>}
SnapshotStoreArgs == {<<"count", "UInt8">>}
SnapshotDeriveArgs == {<<"doubleCount", "doubleCount">>, <<"doubleCount", "bump">>}
SnapshotIfArgs == {<<"always", 8>>, <<"consume", 8>>}

NextSnapshot ==
  \/ Field(SnapshotFieldArgs)
  \/ Store(SnapshotStoreArgs)
  \/ Derive(SnapshotDeriveArgs)
  \/ If(SnapshotIfArgs)
  \/ ExecOp

SpecSnapshot == Init /\ [][NextSnapshot]_vars

\* Programs with bit fields before and after ifs and switches.
NestedFieldArgs == {<<"type", "UInt8">>, <<"type", "Bits3">>}
NestedIfArgs == {<<"always", 1>>, <<"always", 2>>, <<"typeIs1", 1>>}
NestedSwitchArgs == {<<"type", [k \in {"1", "default"} |-> IF k = "1" THEN 1 ELSE 2]>>}

NextNested ==
  \/ Field(NestedFieldArgs)
  \/ If(NestedIfArgs)
  \/ Switch(NestedSwitchArgs)
  \/ ExecOp

SpecNested == Init /\ [][NextNested]_vars

\* -------------------------------------------------------------------- claims
Prog == heap[Main].instructions
Ran == run.count > 0
\* The instructions the last run executed without error.
Steps == 1..Len(run.trace)
\* The reader before instruction i of the last run.
Before(i) ==
  IF i = 1
  THEN [result |-> EmptyMap, storedVars |-> EmptyMap, bytes |-> 0, bits |-> 0,
        mode |-> heap[Main].mode]
  ELSE [result |-> run.trace[i - 1].result, storedVars |-> run.trace[i - 1].storedVars,
        bytes |-> run.trace[i - 1].bytes, bits |-> run.trace[i - 1].bits,
        mode |-> run.trace[i - 1].mode]
Decoding(instr) == instr.op \in {"field", "store"}

RECURSIVE SumSizes(_, _)
SumSizes(prog, n) == IF n = 0 THEN 0 ELSE SumSizes(prog, n - 1) + InstrSize(prog[n])

\* C1: when exec returns a result, the final cursor position in bits is the sum
\* of the bit sizes of the executed instructions and is at most 8 * len(buffer).
C1_CursorWithinBuffer ==
  (Ran /\ run.ok) =>
    /\ run.byteOffset * 8 + run.bitOffset = SumSizes(Prog, Len(Prog))
    /\ run.byteOffset * 8 + run.bitOffset <= Len(run.buf) * 8

\* The heap as it was right after construction: no pad has computed a size.
FreshHeap ==
  [k \in DOMAIN heap |->
     [mode |-> heap[k].mode,
      instructions |-> [i \in DOMAIN heap[k].instructions |->
                          [heap[k].instructions[i] EXCEPT !._size = 0]]]]

\* C2: every exec call, whatever exec calls came before it, ends as the first
\* exec of a freshly built equal program on that buffer ends: same success or
\* failure, same result mapping, same final cursor.
C2_RunsIndependent ==
  Ran =>
    LET fresh == Exec(FreshHeap, Main, run.buf) IN
    /\ fresh.ok = run.ok
    /\ fresh.err = run.err
    /\ fresh.result = run.result
    /\ fresh.byteOffset = run.byteOffset
    /\ fresh.bitOffset = run.bitOffset

\* A third run that succeeds on a buffer used before, after a run on another
\* buffer, of a program with a pad and an if.
C2_Witness ==
  /\ run.count = 3
  /\ run.ok
  /\ run.buf \in run.seen
  /\ \E b \in run.seen : b # run.buf
  /\ \E i \in DOMAIN Prog : Prog[i].op = "pad" /\ Prog[i]._size # 0
  /\ \E i \in DOMAIN Prog : Prog[i].op = "if"
  /\ DOMAIN run.result # {}

\* C3: pad moves the cursor to the next byte boundary when the bit offset is not
\* zero and leaves it where it is when the cursor is byte-aligned.
C3_PadToBoundary ==
  \A i \in Steps :
    Prog[i].op = "pad" =>
      IF Before(i).bits # 0
      THEN run.trace[i].bytes = Before(i).bytes + 1 /\ run.trace[i].bits = 0
      ELSE run.trace[i].bytes = Before(i).bytes /\ run.trace[i].bits = Before(i).bits

\* The names some instruction other than a store writes.
WrittenByOthers == {Prog[i].name : i \in {j \in DOMAIN Prog : Prog[j].op \in {"field", "derive"}}}

\* C4: after store(name, T) the name is no key of the result and the decoded
\* value is in the stored mapping; a name written by stores only is no key of
\* the returned mapping and is a key of the view of every later callback.
C4_StoreHidden ==
  /\ \A i \in Steps :
       Prog[i].op = "store" =>
         /\ Prog[i].name \notin DOMAIN run.trace[i].result
         /\ Prog[i].name \in DOMAIN run.trace[i].storedVars
         /\ run.trace[i].storedVars[Prog[i].name] =
              Decode(Prog[i].typ, Prog[i].lit, run.buf, Before(i).bytes, Before(i).bits,
                     Before(i).mode)
  /\ (Ran /\ run.ok) =>
       \A i \in DOMAIN Prog :
         (Prog[i].op = "store" /\ Prog[i].name \notin WrittenByOthers)
           => Prog[i].name \notin DOMAIN run.result
  /\ \A i \in Steps : \A j \in Steps :
       (i < j /\ Prog[i].op = "store" /\ run.trace[j].called)
         => Prog[i].name \in DOMAIN run.trace[j].arg

\* The value instruction instr wrote, read off the reader it left.
Written(step, instr) ==
  IF instr.op = "store" /\ instr.name \in DOMAIN step.storedVars
  THEN step.storedVars[instr.name]
  ELSE Get(step.result, instr.name)

\* C5: with the field at position i replaced by a store of the same name and
\* type, the run on the same buffer fails or succeeds alike, the cursor after
\* every instruction is the same and every decoding instruction decodes the
\* same value.
C5_StoreReadsAsField ==
  Ran =>
    \A i \in DOMAIN Prog :
      Prog[i].op = "field" =>
        LET b == Exec([heap EXCEPT ![Main].instructions[i].op = "store"], Main, run.buf) IN
        /\ b.ok = run.ok
        /\ b.err = run.err
        /\ Len(b.trace) = Len(run.trace)
        /\ b.byteOffset = run.byteOffset /\ b.bitOffset = run.bitOffset
        /\ \A j \in Steps :
             /\ b.trace[j].bytes = run.trace[j].bytes
             /\ b.trace[j].bits = run.trace[j].bits
             /\ Decoding(Prog[j]) =>
                  Written(b.trace[j], [Prog[j] EXCEPT !.op = IF j = i THEN "store" ELSE @])
                    = Written(run.trace[j], Prog[j])

\* A run that succeeded on a program with a field followed by another decoding
\* instruction.
C5_Witness ==
  /\ Ran /\ run.ok
  /\ \E i \in DOMAIN Prog : \E j \in DOMAIN Prog :
       /\ i < j
       /\ Prog[i].op = "field" /\ Prog[i].typ = "Bits3"
       /\ Prog[j].op = "store"

\* The mode in force before instruction i, read off the program text.
RECURSIVE ModeAt(_)
ModeAt(i) ==
  IF i = 1 THEN heap[Main].mode
  ELSE IF Prog[i - 1].op = "endianness" THEN Prog[i - 1].mode
  ELSE ModeAt(i - 1)

\* C6: every field is decoded under the mode of the latest endianness
\* instruction before it, or the constructor's mode; an endianness instruction
\* moves no cursor and changes no value decoded before it.
C6_LatestEndianness ==
  \A i \in Steps :
    /\ Prog[i].op = "field" =>
         run.trace[i].result[Prog[i].name] =
           Decode(Prog[i].typ, Prog[i].lit, run.buf, Before(i).bytes, Before(i).bits,
                  ModeAt(i))
    /\ Prog[i].op = "endianness" =>
         /\ run.trace[i].bytes = Before(i).bytes
         /\ run.trace[i].bits = Before(i).bits
         /\ run.trace[i].result = Before(i).result
         /\ run.trace[i].storedVars = Before(i).storedVars

\* A 16-bit field whose two bytes differ, read after a switch away from the
\* constructor's mode and followed by a switch back.
C6_Witness ==
  /\ Ran /\ run.ok /\ Len(Prog) = 3
  /\ Prog[1].op = "endianness" /\ Prog[1].mode # heap[Main].mode
  /\ Prog[2].op = "field" /\ Prog[2].typ = "UInt16"
  /\ Prog[3].op = "endianness" /\ Prog[3].mode = heap[Main].mode
  /\ run.buf[1] # run.buf[2]

\* C7: derive moves no cursor, fails on no buffer, hands its callback the keys
\* of the result and stored mappings as they were before it, each with a value
\* one of the two mappings holds, and puts the callback's value under its name.
C7_Derive ==
  /\ \A i \in Steps :
       Prog[i].op = "derive" =>
         LET b == Before(i)
             a == run.trace[i]
         IN  /\ a.bytes = b.bytes /\ a.bits = b.bits
             /\ a.called
             /\ DOMAIN a.arg = DOMAIN b.result \cup DOMAIN b.storedVars
             /\ \A k \in DOMAIN a.arg :
                  \/ k \in DOMAIN b.result /\ a.arg[k] = b.result[k]
                  \/ k \in DOMAIN b.storedVars /\ a.arg[k] = b.storedVars[k]
             /\ a.storedVars = b.storedVars
             /\ DOMAIN a.result = DOMAIN b.result \cup {Prog[i].name}
             /\ a.result[Prog[i].name] = Callback(Prog[i].cb, a.arg)
             /\ \A k \in DOMAIN b.result : k # Prog[i].name => a.result[k] = b.result[k]
  /\ (Ran /\ ~run.ok) => Prog[Len(run.trace) + 1].op # "derive"

\* A derive that ran at the end of the buffer and computed a number from a
\* stored value.
C7_Witness ==
  /\ Ran /\ run.ok
  /\ \E i \in Steps :
       /\ Prog[i].op = "derive"
       /\ "count" \in DOMAIN Before(i).storedVars
       /\ Before(i).bytes = Len(run.buf)
       /\ run.trace[i].result[Prog[i].name][1] = "num"

\* What an if at step i should have merged: the result of its nested program on
\* the bytes from the outer byte offset on.
NestedResult(i) ==
  Exec(heap, Prog[i].spec, SubSeq(run.buf, Before(i).bytes + 1, Len(run.buf))).result

\* C8: an if whose predicate holds runs its nested program on the buffer from
\* the outer byte offset on and writes each key of the nested result into the
\* outer result, over an outer value of that name; other outer keys stay.
C8_IfMerges ==
  \A i \in Steps :
    (Prog[i].op = "if" /\ Predicate(Prog[i].cb, run.trace[i].arg)) =>
      LET b == Before(i)
          a == run.trace[i]
          n == NestedResult(i)
      IN  /\ a.ran
          /\ a.sub = n
          /\ DOMAIN a.result = DOMAIN b.result \cup DOMAIN n
          /\ \A k \in DOMAIN a.result :
               a.result[k] = IF k \in DOMAIN n THEN n[k] ELSE b.result[k]

\* An if past byte 0 whose nested program overwrote an outer value.
C8_Witness ==
  /\ Ran /\ run.ok
  /\ \E i \in Steps :
       /\ Prog[i].op = "if" /\ run.trace[i].ran
       /\ Before(i).bytes > 0
       /\ \E k \in DOMAIN Before(i).result :
            k \in DOMAIN run.trace[i].sub /\ run.trace[i].sub[k] # Before(i).result[k]

\* C9: an if whose predicate does not hold runs no nested program and leaves the
\* result, the stored mapping, the cursor and the mode as they were.
C9_IfFalseNoEffect ==
  \A i \in Steps :
    (Prog[i].op = "if" /\ ~Predicate(Prog[i].cb, run.trace[i].arg)) =>
      /\ ~run.trace[i].ran
      /\ run.trace[i].result = Before(i).result
      /\ run.trace[i].storedVars = Before(i).storedVars
      /\ run.trace[i].bytes = Before(i).bytes
      /\ run.trace[i].bits = Before(i).bits
      /\ run.trace[i].mode = Before(i).mode

\* An if whose predicate failed on a non-empty result although its nested
\* program would have read a value there.
C9_Witness ==
  /\ Ran /\ run.ok
  /\ \E i \in Steps :
       /\ Prog[i].op = "if" /\ ~Predicate(Prog[i].cb, run.trace[i].arg)
       /\ DOMAIN Before(i).result # {}
       /\ DOMAIN NestedResult(i) # {}

\* C10: when the outer cursor is at a bit offset b # 0, the first read of the
\* nested program starts at bit b of the current byte.
C10_IfKeepsBitOffset ==
  \A i \in Steps :
    (Prog[i].op = "if" /\ run.trace[i].ran /\ Before(i).bits # 0) =>
      LET first == heap[Prog[i].spec].instructions[1] IN
      (/\ first.typ \notin ByteOriented
       /\ Before(i).bytes * 8 + Before(i).bits + BitSize(first.typ) <= Len(run.buf) * 8) =>
        run.trace[i].sub[first.name] =
          Decode(first.typ, first.lit, run.buf, Before(i).bytes, Before(i).bits,
                 heap[Prog[i].spec].mode)

\* The names the program of nested spec id writes.
NestedNames(id) ==
  {heap[id].instructions[j].name :
     j \in {n \in DOMAIN heap[id].instructions : heap[id].instructions[n].op = "field"}}

\* The program a switch at step i has to run, as a sequence of at most one spec:
\* the one under the stringified key, else the one under default.
Selected(i) ==
  LET b == Before(i)
      key == ToStr(KeyFn(Prog[i].cb, CombinedVars(b.result, b.storedVars)))
      table == Prog[i].table
  IN  IF key \in DOMAIN table THEN <<table[key]>>
      ELSE IF "default" \in DOMAIN table THEN <<table["default"]>>
      ELSE <<>>

\* C11: a switch runs at most one nested program: the one stored under the
\* stringified key if the table has it, otherwise the one under default if there
\* is one, otherwise nothing and without error; the result gains the selected
\* program's fields and no field of a program that was not selected.
C11_SwitchSelectsOne ==
  /\ \A i \in Steps :
       Prog[i].op = "switch" =>
         LET b == Before(i)
             a == run.trace[i]
             sel == Selected(i)
             others == {Prog[i].table[k] : k \in DOMAIN Prog[i].table} \ {sel[j] : j \in DOMAIN sel}
         IN  /\ a.which = sel
             /\ a.ran = (sel # <<>>)
             /\ sel = <<>> => a.result = b.result
             /\ sel # <<>> =>
                  /\ a.sub = Exec(heap, sel[1], SubSeq(run.buf, b.bytes + 1, Len(run.buf))).result
                  /\ DOMAIN a.result = DOMAIN b.result \cup DOMAIN a.sub
                  /\ \A k \in DOMAIN a.sub : a.result[k] = a.sub[k]
                  /\ NestedNames(sel[1]) \subseteq DOMAIN a.result
             /\ \A o \in others : \A k \in NestedNames(o) :
                  (k \notin DOMAIN b.result /\ (sel = <<>> \/ k \notin NestedNames(sel[1])))
                    => k \notin DOMAIN a.result
  /\ (Ran /\ ~run.ok /\ Prog[Len(run.trace) + 1].op = "switch")
       => Selected(Len(run.trace) + 1) # <<>>

\* A switch past byte 0 whose key is not in the table ran the default program,
\* which overwrote an outer value; the program under the other key left nothing.
C11_Witness ==
  /\ Ran /\ run.ok
  /\ \E i \in Steps :
       /\ Prog[i].op = "switch" /\ Before(i).bytes > 0
       /\ "default" \in DOMAIN Prog[i].table
       /\ run.trace[i].which = <<Prog[i].table["default"]>>
       /\ \E k \in DOMAIN run.trace[i].sub :
            k \in DOMAIN Before(i).result /\ run.trace[i].sub[k] # Before(i).result[k]
       /\ \E k \in DOMAIN Prog[i].table :
            NestedNames(Prog[i].table[k]) \cap DOMAIN run.trace[i].result = {}

\* A switch whose key is in no table entry and that has no default.
C11_WitnessNoMatch ==
  /\ Ran /\ run.ok
  /\ \E i \in Steps :
       /\ Prog[i].op = "switch" /\ "default" \notin DOMAIN Prog[i].table
       /\ run.trace[i].which = <<>>
       /\ "type" \in DOMAIN Before(i).result

\* The instructions the last run executed or tried to execute.
Attempted == {i \in DOMAIN Prog : i <= Len(run.trace) + 1}

\* C12: a field with an expected value e fails the run with 'Expected <name> to
\* be <e> but was <actual>' exactly when the decoded, transformed value differs
\* from e, also when e is 0, false or the empty string; when the value equals e
\* the run goes on and the value is in the result under the field's name.
C12_ShouldBe ==
  Ran =>
    \A i \in Attempted :
      (/\ Prog[i].op = "field" /\ Prog[i].shouldBe # <<>>
       /\ DecodeError(Prog[i].typ, run.buf, Before(i).bytes, Before(i).bits) = "") =>
        LET e == Prog[i].shouldBe[1]
            actual == Then(Prog[i].then,
                           Decode(Prog[i].typ, Prog[i].lit, run.buf, Before(i).bytes,
                                  Before(i).bits, Before(i).mode))
        IN  IF actual # e
            THEN /\ ~run.ok /\ Len(run.trace) = i - 1
                 /\ run.err = "Expected " \o Prog[i].name \o " to be " \o ToStr(e)
                                 \o " but was " \o ToStr(actual)
            ELSE /\ i \in Steps
                 /\ run.trace[i].result[Prog[i].name] = actual

\* A run that passed a check of a transformed value and then failed a check
\* against the expected value 0.
C12_Witness ==
  /\ Ran /\ ~run.ok /\ Len(run.trace) = 1
  /\ Prog[1].shouldBe = <<Num(10)>> /\ run.trace[1].result["count"] = Num(10)
  /\ run.err = "Expected days to be 0 but was 5"

\* The cursor of pb.
Cursor == [bytes |-> pb.offsetBytes, bits |-> pb.offsetBits]
\* The alignment error citing bit offset b.
NotAtByteBoundary(b) ==
  "Buffer position is not at a byte boundary (bit offset " \o ToStr(Num(b))
    \o "). Do you need to use pad()?"
AlignmentErrors == {NotAtByteBoundary(b) : b \in -7..7}
\* The bits the last read needed are in the buffer.
ReadFits ==
  /\ call.before.bytes * 8 + call.before.bits >= 0
  /\ call.before.bytes * 8 + call.before.bits + BitSize(call.typ) <= Len(pb._buffer) * 8

\* C13 as stated: every byte-oriented read at a bit offset other than 0 fails
\* with the alignment error citing that bit offset and leaves the cursor; reads
\* of bit fields and booleans never fail for alignment, and a byte-oriented read
\* at bit offset 0 does not either.
C13_AlignmentAlways ==
  call.op = "read" =>
    /\ (call.typ \in ByteOriented /\ call.before.bits # 0) =>
         /\ call.threw
         /\ call.err = NotAtByteBoundary(call.before.bits)
         /\ Cursor = call.before
    /\ (call.typ \notin ByteOriented \/ call.before.bits = 0) =>
         call.err \notin AlignmentErrors

\* C13, amended: the same for reads attempted while the byte offset is not past
\* the last byte of the buffer; past it the read fails with the read-bounds
\* error, whatever the bit offset, and leaves the cursor as well. A
\* byte-oriented read at bit offset 0 whose bytes are in the buffer succeeds.
C13_AlignmentInsideBuffer ==
  call.op = "read" =>
    /\ (call.typ \in ByteOriented /\ call.before.bits # 0) =>
         /\ call.threw
         /\ Cursor = call.before
         /\ call.err = IF call.before.bytes <= Len(pb._buffer) - 1
                        THEN NotAtByteBoundary(call.before.bits)
                        ELSE "Attempt to read outside of the buffer"
    /\ (call.typ \notin ByteOriented \/ call.before.bits = 0) =>
         call.err \notin AlignmentErrors
    /\ (call.typ \in ByteOriented /\ call.before.bits = 0 /\ ReadFits) => ~call.threw

\* A UInt8 read after an earlier call left the cursor at bit 1 of byte 0: it
\* threw the alignment error citing bit offset 1.
C13_Witness ==
  /\ call.op = "read" /\ call.typ = "UInt8" /\ call.count > 1
  /\ call.before = [bytes |-> 0, bits |-> 1]
  /\ call.threw
  /\ call.err = "Buffer position is not at a byte boundary (bit offset 1). Do you need to use pad()?"
  /\ Cursor = call.before

\* The error instruction i raises on the reader the run handed it, "" when it
\* raises none.
ErrorAt(i) ==
  LET b == Before(i) IN
  CASE Decoding(Prog[i]) -> TypeExecute(Prog[i], run.buf, b).err
    [] Prog[i].op = "if" ->
         IF Predicate(Prog[i].cb, CombinedVars(b.result, b.storedVars))
         THEN Exec(heap, Prog[i].spec, SubSeq(run.buf, b.bytes + 1, Len(run.buf))).err
         ELSE ""
    [] OTHER -> ""

\* C14: an error raised by an instruction, also inside the nested program of an
\* if, ends the exec call there: no instruction that raised an error was passed
\* over, nothing after the failing instruction was executed, the caller gets
\* that very error and no result mapping; a run without error executed every
\* instruction and returned its result.
C14_ErrorsAbort ==
  Ran =>
    /\ \A i \in Steps : ErrorAt(i) = ""
    /\ run.ok => (Len(run.trace) = Len(Prog) /\ run.returned = <<run.result>>)
    /\ ~run.ok =>
         /\ Len(run.trace) < Len(Prog)
         /\ ErrorAt(Len(run.trace) + 1) # ""
         /\ run.err = ErrorAt(Len(run.trace) + 1)
         /\ run.returned = <<>>

\* A run that failed inside the nested program of an if, after a field and
\* before a derive or another if.
C14_Witness ==
  /\ Ran /\ ~run.ok /\ run.returned = <<>>
  /\ Len(run.trace) = 1 /\ Len(Prog) = 3
  /\ Prog[1].op = "field" /\ Prog[2].op = "if" /\ Prog[3].op \in {"derive", "if"}
  /\ run.err = "bounds"

\* C15: field(name, v) with a scalar v never fails, whatever the buffer and the
\* cursor, moves no cursor and leaves v under name in the result; store(name, v)
\* leaves v under name in the stored mapping and not in the result.
C15_Literal ==
  Ran =>
    \A i \in Attempted :
      (Decoding(Prog[i]) /\ Prog[i].typ = "Literal") =>
        /\ i \in Steps
        /\ run.trace[i].bytes = Before(i).bytes
        /\ run.trace[i].bits = Before(i).bits
        /\ Prog[i].op = "field" =>
             /\ Prog[i].name \in DOMAIN run.trace[i].result
             /\ run.trace[i].result[Prog[i].name] = Prog[i].lit
             /\ run.trace[i].storedVars = Before(i).storedVars
        /\ Prog[i].op = "store" =>
             /\ Prog[i].name \in DOMAIN run.trace[i].storedVars
             /\ run.trace[i].storedVars[Prog[i].name] = Prog[i].lit
             /\ Prog[i].name \notin DOMAIN run.trace[i].result

\* C16: after a peek, whether it returned a value or threw, the byte offset and
\* the bit offset are the ones before the call, and a read made next does what
\* it would have done without the peek.
C16_PeekKeepsCursor ==
  call.op = "peek" =>
    /\ Cursor = call.before
    /\ \A a \in ReadArgs :
         LET r == PosRead(pb, a[1], a[2])
             w == PosRead(SetOffset(pb, call.before), a[1], a[2])
         IN  r.threw = w.threw /\ r.err = w.err /\ r.value = w.value

\* C17: peek(T, off) throws 'Attempt to peek outside of the buffer' exactly when
\* off < 0 or off + byteLength(T) > buffer length, wherever the cursor is.
C17_PeekBounds ==
  call.op = "peek" =>
    ((call.threw /\ call.err = "Attempt to peek outside of the buffer")
       <=> (call.arg < 0 \/ call.arg + (BitSize(call.typ) \div 8) > Len(pb._buffer)))

\* C18: skip(n), n negative too, throws 'Attempt to skip outside the buffer' when
\* the byte offset plus n is beyond the end of the buffer (no byte of the buffer
\* is there, as in the test 'cannot be skipped beyond the end of the buffer') or
\* before its start; otherwise it returns, the byte offset has moved by n and
\* the bit offset is the one before; skip(a).skip(b) ends where skip(a + b) ends
\* when both succeed.
C18_Skip ==
  /\ call.op = "skip" =>
       LET target == call.before.bytes + call.arg IN
       IF target > Len(pb._buffer) - 1 \/ target < 0
       THEN call.threw /\ call.err = "Attempt to skip outside the buffer"
       ELSE ~call.threw /\ Cursor = [bytes |-> target, bits |-> call.before.bits]
  /\ \A a \in PosSkipArgs : \A b \in PosSkipArgs :
       LET first == PosSkip(pb, a)
           second == PosSkip(first.pb, b)
           both == PosSkip(pb, a + b)
       IN  (~first.threw /\ ~second.threw) =>
             (~both.threw /\ both.pb = second.pb)

\* C19: a read whose bits do not all lie before the end of the buffer fails with
\* 'Attempt to read outside of the buffer', not only when the byte offset itself
\* is past the last byte; a read that ends exactly at the end of the buffer
\* succeeds and leaves the cursor at the buffer length. (Reads that are refused
\* for alignment are left aside.)
C19_ReadBounds ==
  (call.op = "read" /\ (call.typ \notin ByteOriented \/ call.before.bits = 0)) =>
    LET from == call.before.bytes * 8 + call.before.bits
        to == from + BitSize(call.typ)
    IN  /\ to > Len(pb._buffer) * 8 =>
             (call.threw /\ call.err = "Attempt to read outside of the buffer")
        /\ (from >= 0 /\ to = Len(pb._buffer) * 8) =>
             (~call.threw /\ Cursor = [bytes |-> Len(pb._buffer), bits |-> 0])

\* C20: a read of a bit field of width w at bit position s of the buffer (s is
\* the sum of the widths read before it when only bit fields were read) yields
\* the unsigned integer whose w binary digits are the buffer bits s .. s + w - 1,
\* most significant first and across byte boundaries, and moves the cursor by
\* exactly w bits; it succeeds at every bit offset when those bits are in the
\* buffer.
C20_BitFields ==
  (call.op = "read" /\ call.typ \in BitFields) =>
    LET w == BitSize(call.typ)
        s == call.before.bytes * 8 + call.before.bits
    IN  /\ ReadFits => ~call.threw
        /\ ~call.threw =>
             /\ call.value[1] = "num"
             /\ call.value[2] \in 0..(2 ^ w - 1)
             /\ \A j \in 0..(w - 1) :
                  (call.value[2] \div (2 ^ (w - 1 - j))) % 2
                    = (pb._buffer[((s + j) \div 8) + 1] \div (2 ^ (7 - ((s + j) % 8)))) % 2
             /\ pb.offsetBytes * 8 + pb.offsetBits = s + w
             /\ pb.offsetBits \in 0..7

\* The fourth call on [0xA5, 0x32]: a Bits5 read at bit 9, after 2 + 3 + 4 bits,
\* gave 12 and left the cursor at bit 14.
C20_Witness ==
  /\ pb._buffer = <<165, 50>>
  /\ call.op = "read" /\ call.typ = "Bits5" /\ call.count = 4
  /\ call.before = [bytes |-> 1, bits |-> 1]
  /\ call.value = Num(12)
  /\ Cursor = [bytes |-> 1, bits |-> 6]

\* C21: in every state of a cursor, also the one a call that threw leaves, the
\* byte offset is not negative and the bit offset is in 0..7.
C21_OffsetNormalised ==
  /\ pb.offsetBytes >= 0 /\ pb.offsetBits \in 0..7
  /\ run.byteOffset >= 0 /\ run.bitOffset \in 0..7

\* The program the if or switch at step i has to run, as a sequence of at most
\* one spec.
Branch(i) ==
  LET b == Before(i) IN
  IF Prog[i].op = "switch" THEN Selected(i)
  ELSE IF Predicate(Prog[i].cb, CombinedVars(b.result, b.storedVars)) THEN <<Prog[i].spec>>
  ELSE <<>>

C23_IfKeepsCursor ==
  \A i \in Steps :
    Prog[i].op = "if" =>
      /\ run.trace[i].bytes = Before(i).bytes
      /\ run.trace[i].bits = Before(i).bits
      /\ (i + 1 \in Steps /\ Prog[i + 1].op = "field") =>
           run.trace[i + 1].result[Prog[i + 1].name] =
             Decode(Prog[i + 1].typ, Prog[i + 1].lit, run.buf, Before(i).bytes,
                    Before(i).bits, Before(i).mode)

\* An if at bit 3 of byte 0 whose nested program consumed a byte, followed by a
\* bit field that read bits 3..5.
C23_Witness ==
  /\ Ran /\ run.ok /\ Len(Prog) = 3
  /\ Prog[2].op = "if" /\ run.trace[2].ran /\ DOMAIN run.trace[2].sub = {"a1"}
  /\ Before(2).bytes = 0 /\ Before(2).bits = 3
  /\ Prog[3].op = "field" /\ Prog[3].typ = "Bits3"
  /\ run.trace[3].result["type"] = Num(BitsValue(run.buf, 3, 3))
  /\ run.trace[3].bits = 6
  /\ BitsValue(run.buf, 3, 3) # BitsValue(run.buf, 0, 3)

\* Instruction k of the last run wrote the name n into the result or removed it.
WritesName(k, n) ==
  \/ Prog[k].op \in {"field", "store", "derive"} /\ Prog[k].name = n
  \/ Prog[k].op \in {"if", "switch"} /\ n \in DOMAIN run.trace[k].sub

\* C24: what a derive callback or an if predicate writes to the mapping it is
\* handed reaches neither the result nor the stored mapping, and the value
\* stored for a derived name stays as computed while later instructions change
\* the values it was computed from, until an instruction writes that name.
C24_Snapshot ==
  /\ \A i \in Steps :
       LET b == Before(i)
           a == run.trace[i]
       IN  /\ Prog[i].op = "derive" =>
                /\ a.storedVars = b.storedVars
                /\ a.result = Put(b.result, Prog[i].name, Callback(Prog[i].cb, a.arg))
           /\ Prog[i].op = "if" =>
                /\ a.storedVars = b.storedVars
                /\ a.result = IF a.ran THEN Spread(b.result, a.sub) ELSE b.result
  /\ \A i \in Steps : \A j \in Steps :
       (/\ i < j /\ Prog[i].op = "derive"
        /\ \A k \in (i + 1)..j : ~WritesName(k, Prog[i].name))
         => /\ Prog[i].name \in DOMAIN run.trace[j].result
            /\ run.trace[j].result[Prog[i].name] = run.trace[i].result[Prog[i].name]

\* A derive whose callback doubled count in the mapping it was handed, followed
\* by an if whose nested program put another count into the result: the result
\* holds the new count and the derived value computed from the old one.
C24_Witness ==
  /\ Ran /\ run.ok /\ Len(Prog) = 3
  /\ Prog[1].op = "field" /\ Prog[1].name = "count"
  /\ Prog[2].op = "derive" /\ Prog[2].cb = "bump"
  /\ CallbackWrites("bump", run.trace[2].arg) # run.trace[2].arg
  /\ run.trace[2].result["count"] = Num(run.buf[1])
  /\ Prog[3].op = "if" /\ run.trace[3].ran
  /\ run.result["count"] = Num(run.buf[2]) /\ run.buf[2] # run.buf[1]
  /\ run.result["doubleCount"] = Num(2 * run.buf[1])

\* An if whose predicate cleared type in the mapping it was handed after it had
\* found 1 there: the result still holds 1.
C24_WitnessPredicate ==
  /\ Ran /\ run.ok
  /\ \E i \in Steps :
       /\ Prog[i].op = "if" /\ Prog[i].cb = "consume" /\ run.trace[i].ran
       /\ CallbackWrites("consume", run.trace[i].arg)["type"] = Num(0)
       /\ run.trace[i].result["type"] = Num(1)

\* C25: in the view handed to a derive callback or an if predicate, a key that
\* is in the result and in the stored mapping has the value the result holds.
C25_ResultFirst ==
  \A i \in Steps :
    run.trace[i].called =>
      \A k \in DOMAIN Before(i).result \cap DOMAIN Before(i).storedVars :
        run.trace[i].arg[k] = Before(i).result[k]

\* The position of the PosBuffer the caller got from pb.slice.
SliceCursor == [bytes |-> SliceOf.offsetBytes, bits |-> SliceOf.offsetBits]
SliceCalls == {"slice.read", "slice.skip", "slice.pad"}
ParentCalls == {"read", "skip", "peek", "pad"}

\* C26: pb.slice(start, end) leaves pb as it was and yields a PosBuffer at byte
\* 0, bit 0 over the bytes start .. end - 1 of pb; a call on the slice leaves the
\* position of pb as it was and a call on pb leaves the position of the slice
\* as it was.
C26_SliceIndependent ==
  [][/\ call'.op = "slice" =>
          /\ pb' = pb
          /\ SliceCursor' = [bytes |-> 0, bits |-> 0]
          /\ \E a \in SliceArgs :
               LET from == a[1]
                   to == IF a[2] = <<>> THEN Len(pb._buffer) ELSE a[2][1]
               IN  /\ call'.arg = from
                   /\ Len(SliceOf'._buffer) = to - from
                   /\ \A k \in 1..(to - from) : SliceOf'._buffer[k] = pb._buffer[from + k]
     /\ call'.op \in SliceCalls => (Cursor' = Cursor /\ pb'._buffer = pb._buffer)
     /\ (call'.op \in ParentCalls /\ sliced.is # "none") =>
          (SliceCursor' = SliceCursor /\ SliceOf'._buffer = SliceOf._buffer)
    ]_vars

\* pb is at bit 3 of byte 0 of [0xA5, 0x32], where a read left it before the
\* slice was made; the slice from byte 1 on has read its one byte, 0x32, and is
\* at byte 1.
C26_Witness ==
  /\ pb._buffer = <<165, 50>> /\ Cursor = [bytes |-> 0, bits |-> 3]
  /\ sliced.is = "new" /\ SliceOf._buffer = <<50>>
  /\ call.op = "slice.read" /\ call.typ = "UInt8" /\ ~call.threw
  /\ call.before = [bytes |-> 0, bits |-> 0]
  /\ call.value = Num(50)
  /\ SliceCursor = [bytes |-> 1, bits |-> 0]

\* C27: a skip that throws 'Attempt to skip outside the buffer' leaves the cursor
\* at the position before the call, and a read made next does what it would
\* have done from that position.
C27_SkipThrowKeepsCursor ==
  (call.op = "skip" /\ call.threw) =>
    /\ call.err = "Attempt to skip outside the buffer"
    /\ Cursor = call.before
    /\ \A a \in ReadArgs :
         LET r == PosRead(pb, a[1], a[2])
             w == PosRead(SetOffset(pb, call.before), a[1], a[2])
         IN  r.threw = w.threw /\ r.err = w.err /\ r.value = w.value

\* The names the main program writes itself.
OuterNames == {Prog[k].name : k \in DOMAIN Prog}

\* C28: the nested program of an if runs as it runs on its own on the bytes from
\* the outer byte offset on: its callbacks and predicates are handed no value of
\* the outer result or stored mapping, and a name it stored is in no outer
\* mapping and in no view of a later outer callback, and not in the result.
C28_NestedIsolated ==
  \A i \in Steps :
    (Prog[i].op = "if" /\ run.trace[i].ran) =>
      LET b == Before(i)
          a == run.trace[i]
          alone == Exec(heap, Prog[i].spec, SubSeq(run.buf, b.bytes + 1, Len(run.buf)))
      IN  /\ a.sub = alone.result
          /\ a.subArgs = ArgsOf(alone)
          /\ \A v \in a.subArgs : \A k \in DOMAIN v :
               \E n \in DOMAIN alone.trace :
                 \/ k \in DOMAIN alone.trace[n].result /\ v[k] = alone.trace[n].result[k]
                 \/ k \in DOMAIN alone.trace[n].storedVars
                      /\ v[k] = alone.trace[n].storedVars[k]
          /\ Prog[i].spec = 9 =>
               /\ a.sub = [k \in {"doubleCount"} |-> NaN]
               /\ \A v \in a.subArgs : DOMAIN v \subseteq {"secret", "doubleCount"}
          /\ a.storedVars = b.storedVars
          /\ \A k \in DOMAIN alone.storedVars \ OuterNames :
               \A j \in Steps :
                 j >= i =>
                   /\ k \notin DOMAIN run.trace[j].storedVars
                   /\ k \notin DOMAIN run.trace[j].result
                   /\ k \notin DOMAIN run.trace[j].arg

\* An if after a store of count: its nested program stored secret and derived
\* NaN from a count it was not handed; the outer derive after it was handed
\* count and the merged value, not secret, and derived twice the count.
C28_Witness ==
  /\ Ran /\ run.ok /\ Len(Prog) = 3
  /\ Prog[1].op = "store" /\ run.trace[1].storedVars["count"] = Num(run.buf[1])
  /\ Prog[2].op = "if" /\ run.trace[2].ran
  /\ run.trace[2].result = [k \in {"doubleCount"} |-> NaN]
  /\ \E v \in run.trace[2].subArgs : DOMAIN v = {"secret"} /\ v["secret"] = Num(run.buf[2])
  /\ Prog[3].op = "derive"
  /\ DOMAIN run.trace[3].arg = {"count", "doubleCount"}
  /\ run.result = [k \in {"doubleCount"} |-> Num(2 * run.buf[1])]

\* The mode in force before instruction n of the nested program id, read off
\* that program alone: its constructor's mode or its latest endianness
\* instruction before n.
RECURSIVE NestedModeAt(_, _)
NestedModeAt(id, n) ==
  IF n = 1 THEN heap[id].mode
  ELSE IF heap[id].instructions[n - 1].op = "endianness"
       THEN heap[id].instructions[n - 1].mode
  ELSE NestedModeAt(id, n - 1)

\* C29: a field of the nested program of an if is decoded under the mode the
\* nested program's constructor and its own endianness instructions give,
\* whatever the outer mode at the if is; after the if the outer mode is the one
\* before it, and the outer field after the if is decoded under it.
C29_NestedEndianness ==
  \A i \in Steps :
    (Prog[i].op = "if" /\ run.trace[i].ran) =>
      LET b == Before(i)
          a == run.trace[i]
          nested == heap[Prog[i].spec].instructions
      IN  /\ \A n \in DOMAIN nested :
               (nested[n].op = "field" /\ SumSizes(nested, n - 1) = 0) =>
                 a.sub[nested[n].name] =
                   Decode(nested[n].typ, nested[n].lit, run.buf, b.bytes, 0,
                          NestedModeAt(Prog[i].spec, n))
          /\ a.mode = b.mode
          /\ a.mode = ModeAt(i)
          /\ (i + 1 \in Steps /\ Prog[i + 1].op = "field") =>
               run.trace[i + 1].result[Prog[i + 1].name] =
                 Decode(Prog[i + 1].typ, Prog[i + 1].lit, run.buf, b.bytes, b.bits, ModeAt(i))

\* A big-endian program whose if ran a nested program that switched to little
\* endian and read two different bytes that way; the outer field after the if
\* read the same bytes big-endian.
C29_Witness ==
  /\ Ran /\ run.ok /\ Len(Prog) = 2 /\ heap[Main].mode = "BE"
  /\ Len(run.buf) = 2 /\ run.buf[1] # run.buf[2]
  /\ Prog[1].op = "if" /\ Prog[1].spec = 10 /\ run.trace[1].ran
  /\ run.trace[1].sub["count"] = Num(run.buf[2] * 256 + run.buf[1])
  /\ Prog[2].op = "field"
  /\ run.result["total"] = Num(run.buf[1] * 256 + run.buf[2])

\* A program switched to little endian whose if ran a nested program built
\* big-endian: the nested field was read big-endian.
C29_WitnessOuterLE ==
  /\ Ran /\ run.ok /\ Len(run.buf) = 2 /\ run.buf[1] # run.buf[2]
  /\ \E i \in Steps :
       /\ Prog[i].op = "if" /\ Prog[i].spec = 7 /\ run.trace[i].ran
       /\ Before(i).mode = "LE"
       /\ run.trace[i].sub["count"] = Num(run.buf[1] * 256 + run.buf[2])
       /\ run.trace[i].mode = "LE"

\* C30: a store leaves every key of the result and of the stored mapping other
\* than its own name as it was; when the result held a value under its name,
\* the name is no key of the result afterwards and the stored mapping holds the
\* value the store decoded.
C30_StoreFrame ==
  \A i \in Steps :
    Prog[i].op = "store" =>
      LET b == Before(i)
          a == run.trace[i]
          n == Prog[i].name
      IN  /\ n \in DOMAIN b.result =>
               /\ n \notin DOMAIN a.result
               /\ n \in DOMAIN a.storedVars
               /\ a.storedVars[n] =
                    Decode(Prog[i].typ, Prog[i].lit, run.buf, b.bytes, b.bits, b.mode)
          /\ DOMAIN a.result \ {n} = DOMAIN b.result \ {n}
          /\ \A k \in DOMAIN b.result \ {n} : a.result[k] = b.result[k]
          /\ DOMAIN a.storedVars \ {n} = DOMAIN b.storedVars \ {n}
          /\ \A k \in DOMAIN b.storedVars \ {n} : a.storedVars[k] = b.storedVars[k]

====
